---- MODULE Spec2Model ----
(***************************************************************************)
(* Price retrieval of the Wildberries parser:                              *)
(*   WildberriesAPI.get_prices_by_articles   (src/src/api/wb_api.py)       *)
(*   WildberriesParser.parse_basic_prices    (src/src/parsers/wb_parser.py)*)
(*                                                                         *)
(* A Python string is a sequence of tokens.  A token is one character      *)
(* (a digit, a blank, "/", a letter) or one of the fixed words "http",     *)
(* "catalog", "detail.aspx", none of which is a concatenation of other     *)
(* tokens, so two strings are equal exactly when their token sequences     *)
(* are.  A Python dict is a function from its keys; an absent key is       *)
(* absent from the DOMAIN.  An optional value (x or None) is a sequence of *)
(* length one or zero.  Time is in milliseconds.                           *)
(***************************************************************************)
EXTENDS Integers, Sequences, FiniteSets, TLC

(***************************************************************************)
(* Strings                                                                 *)
(***************************************************************************)
Digits == <<"0", "1", "2", "3", "4", "5", "6", "7", "8", "9">>

IsDigitTok(c) == \E i \in 1..10 : Digits[i] = c

DigitVal(c) == (CHOOSE i \in 1..10 : Digits[i] = c) - 1

\* str(n) for an int n >= 0
RECURSIVE Str(_)
Str(n) == IF n < 10 THEN <<Digits[n + 1]>>
          ELSE Str(n \div 10) \o <<Digits[(n % 10) + 1]>>

\* str.isdigit(): non-empty and every character a digit
isdigit(s) == Len(s) > 0 /\ \A i \in 1..Len(s) : IsDigitTok(s[i])

\* int(s) for a string of digits
RECURSIVE int(_)
int(s) == IF Len(s) = 0 THEN 0
          ELSE 10 * int(SubSeq(s, 1, Len(s) - 1)) + DigitVal(s[Len(s)])

\* str.strip(): leading and trailing blanks removed
strip(s) ==
    LET nb == {i \in 1..Len(s) : s[i] # " "}
    IN  IF nb = {} THEN <<>>
        ELSE SubSeq(s, CHOOSE i \in nb : \A j \in nb : i <= j,
                       CHOOSE i \in nb : \A j \in nb : j <= i)

\* the end of the run of digits of s that starts at position p (p - 1 when
\* s[p] is no digit)
DigitRunEnd(s, p) ==
    LET stops == {q \in p..(Len(s) + 1) : q = Len(s) + 1 \/ ~IsDigitTok(s[q])}
    IN  (CHOOSE q \in stops : \A r \in stops : q <= r) - 1

\* re.search(r'/catalog/(\d+)/detail\.aspx', s): group 1 of the leftmost match,
\* as an optional value
SearchCatalog(s) ==
    LET hits == {p \in 1..Len(s) :
                    /\ p + 3 <= Len(s)
                    /\ s[p] = "/" /\ s[p + 1] = "catalog" /\ s[p + 2] = "/"
                    /\ LET e == DigitRunEnd(s, p + 3)
                       IN  /\ e >= p + 3
                           /\ e + 2 <= Len(s)
                           /\ s[e + 1] = "/" /\ s[e + 2] = "detail.aspx"}
    IN  IF hits = {} THEN <<>>
        ELSE LET p == CHOOSE h \in hits : \A g \in hits : h <= g
             IN  <<SubSeq(s, p + 3, DigitRunEnd(s, p + 3))>>

\* re.search(r'/(\d{6,})/', s): group 1 of the leftmost match
SearchDigits(s) ==
    LET hits == {p \in 1..Len(s) :
                    /\ s[p] = "/"
                    /\ LET e == DigitRunEnd(s, p + 1)
                       IN  /\ e - p >= 6
                           /\ e + 1 <= Len(s)
                           /\ s[e + 1] = "/"}
    IN  IF hits = {} THEN <<>>
        ELSE LET p == CHOOSE h \in hits : \A g \in hits : h <= g
             IN  <<SubSeq(s, p + 1, DigitRunEnd(s, p + 1))>>

\* WildberriesAPI._extract_article_from_url
extract_article_from_url(article) ==
    IF Len(article) > 0 /\ article[1] = "http"
    THEN IF SearchCatalog(article) # <<>> THEN SearchCatalog(article)[1]
         ELSE IF SearchDigits(article) # <<>> THEN SearchDigits(article)[1]
         ELSE strip(article)
    ELSE strip(article)

\* the concatenation of the lists xss[lo], ..., xss[hi], by halves
RECURSIVE ConcatRange(_, _, _)
ConcatRange(xss, lo, hi) ==
    IF lo > hi THEN <<>>
    ELSE IF lo = hi THEN xss[lo]
    ELSE LET mid == (lo + hi) \div 2
         IN  ConcatRange(xss, lo, mid) \o ConcatRange(xss, mid + 1, hi)

\* [y for xs in xss for y in xs]
Concat(xss) == ConcatRange(xss, 1, Len(xss))

\* the elements of a list
Elems(xs) == {xs[k] : k \in 1..Len(xs)}

\* xs[from : from + n] with a 0-based from, as a Python slice
Slice(xs, from, n) ==
    SubSeq(xs, from + 1, IF from + n < Len(xs) THEN from + n ELSE Len(xs))

(***************************************************************************)
(* Program constants                                                       *)
(***************************************************************************)
\* wb_api.py: batch_size of the nmList requests
batch_size == 100
\* wb_api.py: min_interval = 0.6 s
min_interval == 600
\* wb_api.py: "if request_count >= 10"
window_requests == 10
\* wb_api.py: "if elapsed < 6.0", "wait_time = 6.0 - elapsed"
window_ms == 6000
\* wb_api.py: response.headers.get("Retry-After", 6), in seconds
retry_after_default == 6
\* wb_api.py: the default of request_delay, ms
request_delay == 500
\* wb_api.py: limit of get_all_products
limit == 1000
\* wb_parser.py: batch_size of parse_basic_prices
parser_batch_size == 100

(***************************************************************************)
(* Bounds of the model                                                     *)
(***************************************************************************)
\* each endpoint answers its first MaxFree requests of a run as it likes and
\* then repeats its last answer
MaxFree == 4
\* the same for the long runs of SpecLong
MaxFreeLong == 1

(***************************************************************************)
(* JSON values and dicts                                                   *)
(***************************************************************************)
JDict(d) == [t |-> "dict", v |-> d]
JList(l) == [t |-> "list", v |-> l]
IsDict(j) == j.t = "dict"
IsList(j) == j.t = "list"
\* bool(j) of a list or dict
Truthy(j) == IF IsList(j) THEN j.v # <<>> ELSE DOMAIN j.v # {}
\* "key in j": a key of a dict; never an element of a list of goods
HasKey(j, key) == IsDict(j) /\ key \in DOMAIN j.v

\* d.get(k), as an optional value
Get(d, k) == IF k \in DOMAIN d THEN <<d[k]>> ELSE <<>>
\* d.get(k, default)
GetOr(d, k, default) == IF k \in DOMAIN d THEN d[k] ELSE default

(***************************************************************************)
(* The server: goods and response bodies                                   *)
(***************************************************************************)
\* the vendor code of the product with marketplace id n: never a number
VendorOf(n) == <<"A">> \o Str(n)

Size(k) == [sizeID |-> k, price |-> 100 * k, discountedPrice |-> 90 * k,
            clubDiscountedPrice |-> 80 * k, techSizeName |-> Str(40 + k)]

\* a product without size-level prices
PlainGood(n) == [vendorCode |-> VendorOf(n), nmID |-> n, price |-> 500,
                 discountedPrice |-> 450, clubDiscountedPrice |-> 400,
                 discount |-> 10]
\* a product with two sizes, its id under the other casing of the key
SizedGood(n) == [vendorCode |-> VendorOf(n), nmId |-> n,
                 sizes |-> <<Size(1), Size(2)>>, discount |-> 10]
\* a product the listing gives no vendor code for, with an empty sizes array
NmOnlyGood(n) == [nmId |-> n, price |-> 500, discountedPrice |-> 450,
                  sizes |-> <<>>]
\* a product of the seller nobody asked for
ForeignGood == [vendorCode |-> <<"B">>, nmID |-> 999999, price |-> 700]

Shapes == {"listGoods", "data", "bare"}

\* the three envelopes of a list of goods
Envelope(shape, goods) ==
    CASE shape = "listGoods" -> JDict([data |-> JDict([listGoods |-> goods])])
      [] shape = "data"      -> JDict([data |-> JList(goods)])
      [] OTHER               -> JList(goods)

\* what POST /api/v2/list/goods/filter answers for nmList
PostGoods(content, nm_ids) ==
    CASE content = "none"  -> <<>>
      [] content = "first" -> <<SizedGood(nm_ids[1])>>
      [] OTHER             -> [k \in 1..Len(nm_ids) |-> PlainGood(nm_ids[k])]

\* the seller's listing: the requested products, the first of them a second
\* time without vendor code, and one more product
ListingGood(c) ==
    IF isdigit(c) THEN PlainGood(int(c))
    ELSE [vendorCode |-> c, nmID |-> 900000, price |-> 600]

ListingFor(cleaned) ==
    (IF cleaned # <<>> /\ isdigit(cleaned[1])
     THEN <<NmOnlyGood(int(cleaned[1]))>> ELSE <<>>)
    \o [k \in 1..Len(cleaned) |-> ListingGood(cleaned[k])]
    \o <<ForeignGood>>

GetGoods(content, cleaned) ==
    IF content = "none" THEN <<>> ELSE ListingFor(cleaned)

\* a Retry-After header that gives a date instead of seconds
HttpDate == <<"A", " ", "2", "1">>

\* an answer: status (0: the request raised RequestException), the content of
\* a 200 body, the Retry-After header of a 429 (optional)
Answer(st, content, retry) == [st |-> st, content |-> content, retry |-> retry]

PostAnswers ==
    {Answer(200, c, <<>>) : c \in {"none", "first", "all"}}
    \cup {Answer(400, "none", <<>>), Answer(500, "none", <<>>),
          Answer(0, "none", <<>>)}
    \cup {Answer(429, "none", r) : r \in {<<>>, <<Str(1)>>, <<HttpDate>>}}

GetAnswers ==
    {Answer(200, c, <<>>) : c \in {"none", "all"}}
    \cup {Answer(400, "none", <<>>), Answer(500, "none", <<>>),
          Answer(0, "none", <<>>)}

(***************************************************************************)
(* get_prices_by_articles: the pure parts                                  *)
(***************************************************************************)
\* lines 266-279: the goods of a 200 answer to the nmList request
ExtractA(result) ==
    IF ~Truthy(result) THEN <<>>
    ELSE IF HasKey(result, "data")
         THEN LET data == result.v.data
              IN  IF IsDict(data) /\ "listGoods" \in DOMAIN data.v
                  THEN data.v.listGoods
                  ELSE IF IsList(data) THEN data.v ELSE <<>>
         ELSE IF IsList(result) THEN result.v ELSE <<>>

\* lines 337-341: str(vendorCode) or str(nmID) or str(nmId)
GoodArticle(good) ==
    LET vc == GetOr(good, "vendorCode", <<>>)
        a  == IF "nmID" \in DOMAIN good THEN Str(good.nmID) ELSE <<>>
        b  == IF "nmId" \in DOMAIN good THEN Str(good.nmId) ELSE <<>>
    IN  IF vc # <<>> THEN vc ELSE IF a # <<>> THEN a ELSE b

\* lines 332-343: the goods whose article is one of the requested ones
InArticleSet(good, article_set) == GoodArticle(good) \in article_set

FilterGoods(all_goods, cleaned) ==
    LET article_set == {cleaned[k] : k \in 1..Len(cleaned)}
    IN  Concat([k \in 1..Len(all_goods) |->
                  IF InArticleSet(all_goods[k], article_set)
                  THEN <<all_goods[k]>> ELSE <<>>])

\* lines 323-349: the goods of a 200 answer to the listing request
ExtractB(result, cleaned) ==
    IF ~Truthy(result) THEN <<>>
    ELSE IF HasKey(result, "data")
         THEN LET data == result.v.data
              IN  IF IsDict(data) /\ "listGoods" \in DOMAIN data.v
                  THEN FilterGoods(data.v.listGoods, cleaned)
                  ELSE IF IsList(data) THEN data.v ELSE <<>>
         ELSE <<>>

(***************************************************************************)
(* Inputs                                                                  *)
(***************************************************************************)
\* the identifiers "1" .. "n"
Nums(n) == [k \in 1..n |-> Str(k)]

\* https://A/catalog/115224/detail.aspx
UrlCatalog == <<"http", "/", "/", "A", "/", "catalog", "/",
                "1", "1", "5", "2", "2", "4", "/", "detail.aspx">>
\* https://A/1234567/
UrlDigits == <<"http", "/", "/", "A", "/",
               "1", "2", "3", "4", "5", "6", "7", "/">>
\* https://A/12/ : no catalog segment and no run of six digits
UrlOther == <<"http", "/", "/", "A", "/", "1", "2", "/">>

TextOnly == << <<"A", "B">> >>
Mixed == << <<"A", "B">>, <<" ", "7", " ">>, UrlCatalog >>
Urls == <<UrlDigits, UrlOther>>

\* what a caller passes to get_prices_by_articles
FetcherInputs == {Nums(1), Nums(2), TextOnly, Mixed, Urls, Nums(101), Nums(250)}
\* what read_wb_articles gives parse_basic_prices
ParserInputs == {Nums(1), Nums(2), TextOnly, Mixed, Urls, Nums(101)}
\* what the identifier file holds when main runs
MainInputs == {Nums(1)}
\* runs long enough to fill the rate window
FetcherInputsLong == {Nums(1001)}
ParserInputsLong == {Nums(501)}
MainInputsLong == {Nums(1)}

\* the number of cards of the account the catalogue is read from
Catalogs == {0, 1, 1000, 1001, 2000}
CatalogsLong == {1, 1001}

\* the time a request takes
Latencies == {0, 200}

(***************************************************************************)
(* State                                                                   *)
(***************************************************************************)
VARIABLES
    entry,            \* "main": main() runs; "parser": parse_basic_prices
                      \* runs; "fetcher": a direct call of
                      \* get_prices_by_articles; "products": a call of
                      \* get_all_products
    pc,               \* where the program is
    now,              \* time.time(), ms
    latency,          \* the time a request of this run takes
    shape,            \* the envelope the server wraps its lists in
    lastA, freeA,     \* POST .../filter: its last answer, free answers left
    lastB, freeB,     \* GET .../filter: the same
    \* main
    wb_api_keys,      \* settings.get_wb_api_keys(): name -> key, "" when unset
    wb_cabinet_ids,   \* settings.get_wb_cabinet_ids(): name -> id
    acct,             \* the position of the loop of line 45 in CabinetNames
    merged,           \* all_results of main
    exit_code,        \* what main returned: <<>> while it runs
    \* parse_basic_prices
    source,           \* the identifier file: its path, if there is one, and
                      \* the vendor codes read_wb_articles gives
    cabinet,          \* self.cabinet_name, self.cabinet_id
    vendor_codes,     \* read_wb_articles(...)
    i,                \* the loop variable of line 57
    rows,             \* all_results of parse_basic_prices
    \* get_prices_by_articles
    articles,         \* the argument
    cleaned_articles,
    numeric_articles,
    all_results,
    request_count,
    start_time,
    batch_idx,        \* the loop variable of line 237
    ret,              \* the value returned: <<list>>, or <<>> for None
    \* get_all_products, get_content, _make_request
    catalog,          \* the number of cards the server has
    offset,
    all_products,
    result,           \* what _make_request returned: <<body>>, <<>> for None
    \* history
    parsers,          \* the accounts a WildberriesParser was created for
    failed,           \* the accounts whose processing raised
    export,           \* what became of the export
    rows_bare,        \* the rows of the same run over the bare codes the
                      \* URL identifiers resolve to
    mrLog,            \* the calls of _make_request: status, time of the
                      \* answer, time of the return
    call,             \* the number of calls of get_prices_by_articles so far
    a_records,        \* the goods the nmList answers of this call carried
    reqLog            \* the requests issued: time, method, nmList, status,
                      \* call, and the records the call had when it went out

vars == <<entry, pc, now, latency, shape, lastA, freeA, lastB, freeB,
          wb_api_keys, wb_cabinet_ids, acct, merged, exit_code, source,
          cabinet, vendor_codes, i, rows, articles, cleaned_articles,
          numeric_articles, all_results, request_count, start_time, batch_idx,
          ret, catalog, offset, all_products, result, parsers, failed, export,
          rows_bare, mrLog, call, a_records, reqLog>>

srvVars == <<lastA, freeA, lastB, freeB>>
parserVars == <<cabinet, vendor_codes, i, rows, rows_bare>>
fetcherVars == <<articles, cleaned_articles, numeric_articles, all_results,
                 request_count, start_time, batch_idx, ret>>
runVars == <<entry, latency, shape, wb_api_keys, wb_cabinet_ids, source,
            catalog>>
mainVars == <<acct, merged, exit_code, parsers, failed, export>>
productVars == <<offset, all_products, result, mrLog>>

\* the accounts of the configuration, in the order of the settings
CabinetNames == <<"COSMO", "MAU">>
CabinetIds == [n \in Elems(CabinetNames) |-> IF n = "COSMO" THEN "1001"
                                              ELSE "1002"]
\* the credentials of the accounts
CabinetKeys == [n \in Elems(CabinetNames) |-> IF n = "COSMO" THEN "keyC"
                                               ELSE "keyM"]
\* settings.get_wb_api_keys(): every account has an entry, "" without a key
ApiKeys ==
    {[n \in Elems(CabinetNames) |-> IF n \in S THEN CabinetKeys[n] ELSE ""] :
        S \in SUBSET Elems(CabinetNames)}
\* settings.get_wb_cabinet_ids(): the accounts that have an id
CabinetIdDicts ==
    {[n \in S |-> CabinetIds[n]] : S \in SUBSET Elems(CabinetNames)}
AllKeys == CabinetKeys

Cabinets == {[name |-> "COSMO", id |-> "1001", key |-> "keyC"]}
\* no parser was created yet
NoCabinet == [name |-> "", id |-> "", key |-> ""]

\* the identifier file: found with these vendor codes, or not found
Found(codes) == [path |-> <<"Articles.xlsx">>, codes |-> codes]
NotFound == [path |-> <<>>, codes |-> <<>>]
Sources(inputs) == {Found(c) : c \in inputs \cup {<<>>}} \cup {NotFound}

InitWith(fetcherInputs, parserInputs, mainInputs, catalogs, free) ==
    /\ entry \in {"main", "parser", "fetcher", "products"}
    /\ latency \in Latencies
    /\ shape \in Shapes
    /\ IF entry = "main"
       THEN /\ wb_api_keys \in ApiKeys
            /\ wb_cabinet_ids \in CabinetIdDicts
            /\ cabinet = NoCabinet
       ELSE /\ wb_api_keys = AllKeys
            /\ wb_cabinet_ids = CabinetIds
            /\ cabinet \in Cabinets
    /\ source \in CASE entry = "main" -> Sources(mainInputs)
                    [] entry = "parser" -> Sources(parserInputs)
                    [] OTHER -> {NotFound}
    /\ articles \in IF entry = "fetcher" THEN fetcherInputs ELSE {<<>>}
    /\ catalog \in IF entry = "products" THEN catalogs ELSE {0}
    /\ pc = CASE entry = "main" -> "main"
              [] entry = "parser" -> "parse_begin"
              [] entry = "fetcher" -> "call"
              [] OTHER -> "products"
    /\ now = 0
    /\ lastA = Answer(200, "none", <<>>) /\ freeA = free
    /\ lastB = Answer(200, "none", <<>>) /\ freeB = free
    /\ acct = 0 /\ merged = <<>> /\ exit_code = <<>>
    /\ vendor_codes = <<>> /\ i = 0 /\ rows = <<>> /\ rows_bare = <<>>
    /\ cleaned_articles = <<>> /\ numeric_articles = <<>>
    /\ all_results = <<>> /\ request_count = 0 /\ start_time = 0
    /\ batch_idx = 0 /\ ret = <<>>
    /\ offset = 0 /\ all_products = <<>> /\ result = <<>>
    /\ parsers = <<>> /\ failed = <<>> /\ export = "none"
    /\ mrLog = <<>>
    /\ call = 0 /\ a_records = <<>> /\ reqLog = <<>>

Init == InitWith(FetcherInputs, ParserInputs, MainInputs, Catalogs, MaxFree)

InitLong ==
    InitWith(FetcherInputsLong, ParserInputsLong, MainInputsLong,
             CatalogsLong, MaxFreeLong)

(***************************************************************************)
(* parse_basic_prices: the pure parts                                      *)
(***************************************************************************)
\* d.get(k1) or d.get(k2), for string values and for int values
GetOrElseStr(d, k1, k2) ==
    IF k1 \in DOMAIN d /\ d[k1] # <<>> THEN <<d[k1]>> ELSE Get(d, k2)

GetOrElseInt(d, k1, k2) ==
    IF k1 \in DOMAIN d /\ d[k1] # 0 THEN <<d[k1]>> ELSE Get(d, k2)

\* a slip of lines 71-72: the error row does not say whose it is
ErrorRowUntagged(cab, vendor_code) ==
    [cabinet |-> cab.name, cabinet_id |-> "",
     vendor_code |-> <<vendor_code>>,
     base_price |-> <<>>, discount_price |-> <<>>, price_with_card |-> <<>>,
     error |-> "no prices"]

\* lines 71-79: the row of an identifier of a batch without prices
ErrorRow(cab, vendor_code) ==
    [cabinet |-> cab.name, cabinet_id |-> cab.id,
     vendor_code |-> <<vendor_code>>,
     base_price |-> <<>>, discount_price |-> <<>>, price_with_card |-> <<>>,
     error |-> "no prices"]

\* lines 94-114: the row of one size of an item
SizeRow(cab, price_item, size) ==
    [cabinet |-> cab.name, cabinet_id |-> cab.id,
     nm_id |-> GetOrElseInt(price_item, "nmID", "nmId"),
     vendor_code |-> GetOrElseStr(price_item, "vendorCode", "vendor_code"),
     size_id |-> Get(size, "sizeID"),
     size_name |-> <<GetOr(size, "techSizeName", <<>>)>>,
     base_price |-> Get(size, "price"),
     discounted_price |-> Get(size, "discountedPrice"),
     club_discounted_price |-> Get(size, "clubDiscountedPrice"),
     discount_percent |-> Get(price_item, "discount"),
     club_discount_percent |-> Get(price_item, "clubDiscount"),
     currency |-> GetOr(price_item, "currencyIsoCode4217", "RUB"),
     editable_size_price |-> GetOr(price_item, "editableSizePrice", FALSE)]

\* lines 117-135: the row of an item without sizes
PlainRow(cab, price_item) ==
    [cabinet |-> cab.name, cabinet_id |-> cab.id,
     nm_id |-> GetOrElseInt(price_item, "nmID", "nmId"),
     vendor_code |-> GetOrElseStr(price_item, "vendorCode", "vendor_code"),
     size_id |-> <<>>,
     size_name |-> <<>>,
     base_price |-> Get(price_item, "price"),
     discounted_price |-> Get(price_item, "discountedPrice"),
     club_discounted_price |-> Get(price_item, "clubDiscountedPrice"),
     discount_percent |-> Get(price_item, "discount"),
     club_discount_percent |-> Get(price_item, "clubDiscount"),
     currency |-> GetOr(price_item, "currencyIsoCode4217", "RUB"),
     editable_size_price |-> GetOr(price_item, "editableSizePrice", FALSE)]

\* a slip of lines 91-93: only the first size of an item gets a row
ItemRowsFirstSize(cab, price_item) ==
    LET sizes == GetOr(price_item, "sizes", <<>>)
    IN  IF sizes # <<>>
        THEN <<SizeRow(cab, price_item, sizes[1])>>
        ELSE <<PlainRow(cab, price_item)>>

\* lines 84-135: the rows of one item
ItemRows(cab, price_item) ==
    LET sizes == GetOr(price_item, "sizes", <<>>)
    IN  IF sizes # <<>>
        THEN [k \in 1..Len(sizes) |-> SizeRow(cab, price_item, sizes[k])]
        ELSE <<PlainRow(cab, price_item)>>

\* lines 83-135: the rows of the items of a batch
PriceRows(cab, prices_data) ==
    Concat([k \in 1..Len(prices_data) |-> ItemRows(cab, prices_data[k])])

\* a slip of lines 70-79: one row for the batch instead of one per identifier
ErrorRowsOnce(cab, batch) == <<ErrorRow(cab, batch[1])>>

\* lines 70-79: the rows of a batch without prices
ErrorRows(cab, batch) == [k \in 1..Len(batch) |-> ErrorRow(cab, batch[k])]

(***************************************************************************)
(* parse_basic_prices: the loop                                            *)
(***************************************************************************)
\* the bare code an identifier given as a URL resolves to
Bare(identifier) ==
    IF identifier # <<>> /\ identifier[1] = "http"
    THEN extract_article_from_url(identifier)
    ELSE identifier
BareCodes(codes) == [k \in 1..Len(codes) |-> Bare(codes[k])]

\* a slip of lines 42 and 49: the empty input gives a row with an error marker
EmptyInputRowsMarked(cab) == <<ErrorRow(cab, <<>>)>>

\* lines 42 and 49: "return []"
EmptyInputRows(cab) == <<>>

\* lines 37-42: find_articles_file() found no file
ParseNoFile ==
    /\ pc = "parse_begin"
    /\ source.path = <<>>
    /\ vendor_codes' = <<>>
    /\ i' = 0
    /\ rows' = EmptyInputRows(cabinet)
    /\ rows_bare' = rows'
    /\ pc' = "done"
    /\ UNCHANGED <<runVars, mainVars, productVars, srvVars, cabinet, now,
                   fetcherVars, call, a_records, reqLog>>

\* lines 45-49: read_wb_articles gave no vendor code
ParseNoArticles ==
    /\ pc = "parse_begin"
    /\ source.path # <<>>
    /\ source.codes = <<>>
    /\ vendor_codes' = <<>>
    /\ i' = 0
    /\ rows' = EmptyInputRows(cabinet)
    /\ rows_bare' = rows'
    /\ pc' = "done"
    /\ UNCHANGED <<runVars, mainVars, productVars, srvVars, cabinet, now,
                   fetcherVars, call, a_records, reqLog>>

\* lines 45-55: read_wb_articles gave the vendor codes of the file
ParseRead ==
    /\ pc = "parse_begin"
    /\ source.path # <<>>
    /\ source.codes # <<>>
    /\ vendor_codes' = source.codes
    /\ i' = 0
    /\ rows' = <<>>
    /\ rows_bare' = <<>>
    /\ pc' = "parse"
    /\ UNCHANGED <<runVars, mainVars, productVars, srvVars, cabinet, now,
                   fetcherVars, call, a_records, reqLog>>

\* lines 57-65: the next batch goes to get_prices_by_articles
ParseCall ==
    /\ pc = "parse"
    /\ i < Len(vendor_codes)
    /\ articles' = Slice(vendor_codes, i, parser_batch_size)
    /\ pc' = "call"
    /\ UNCHANGED <<runVars, mainVars, productVars, srvVars, parserVars, now, cleaned_articles,
                   numeric_articles, all_results, request_count, start_time,
                   batch_idx, ret, call, a_records, reqLog>>

\* lines 67-80: the fetcher returned nothing
ParseNoData ==
    /\ pc = "ret" /\ entry # "fetcher"
    /\ ret = <<>>
    /\ rows' = rows \o ErrorRows(cabinet, articles)
    /\ rows_bare' = rows_bare \o ErrorRows(cabinet, BareCodes(articles))
    /\ i' = i + parser_batch_size
    /\ pc' = "parse"
    /\ UNCHANGED <<runVars, mainVars, productVars, srvVars, cabinet, vendor_codes, now, fetcherVars,
                   call, a_records, reqLog>>

\* lines 83-135: the fetcher returned items
ParsePrices ==
    /\ pc = "ret" /\ entry # "fetcher"
    /\ ret # <<>>
    /\ rows' = rows \o PriceRows(cabinet, ret[1])
    /\ rows_bare' = rows_bare \o PriceRows(cabinet, ret[1])
    /\ i' = i + parser_batch_size
    /\ pc' = "parse"
    /\ UNCHANGED <<runVars, mainVars, productVars, srvVars, cabinet, vendor_codes, now, fetcherVars,
                   call, a_records, reqLog>>

\* lines 137-138
ParseReturn ==
    /\ pc = "parse"
    /\ i >= Len(vendor_codes)
    /\ pc' = "done"
    /\ UNCHANGED <<runVars, mainVars, productVars, srvVars, parserVars, now, fetcherVars, call,
                   a_records, reqLog>>

(***************************************************************************)
(* get_prices_by_articles                                                  *)
(***************************************************************************)
\* line 220
Cleaned(arts) == [k \in 1..Len(arts) |-> extract_article_from_url(arts[k])]

\* line 229
Numeric(cleaned) ==
    Concat([k \in 1..Len(cleaned) |->
              IF isdigit(cleaned[k]) THEN <<cleaned[k]>> ELSE <<>>])

\* lines 216-230
GetPricesBegin ==
    /\ pc = "call"
    /\ cleaned_articles' = Cleaned(articles)
    /\ numeric_articles' = Numeric(cleaned_articles')
    /\ all_results' = <<>>
    /\ request_count' = 0
    /\ start_time' = now
    /\ batch_idx' = 0
    /\ call' = call + 1
    /\ a_records' = <<>>
    /\ pc' = "post"
    /\ UNCHANGED <<runVars, mainVars, productVars, srvVars, parserVars, now, articles, ret, reqLog>>

\* line 233, 237: the loop has a batch left
InLoop == pc = "post" /\ batch_idx < Len(numeric_articles)

\* a slip of line 238: the slice takes the element at its end as well
batchInclusive == Slice(numeric_articles, batch_idx, batch_size + 1)

\* lines 238-239
batch == Slice(numeric_articles, batch_idx, batch_size)
nm_ids == [k \in 1..Len(batch) |-> int(batch[k])]

\* lines 241-247: the window check before a request
WindowFull == request_count >= window_requests
wait_time ==
    IF WindowFull /\ now - start_time < window_ms
    THEN window_ms - (now - start_time) ELSE 0
IssueTime == now + wait_time
CountAtIssue == IF WindowFull THEN 0 ELSE request_count
StartAtIssue == IF WindowFull THEN IssueTime ELSE start_time

\* the server answers a request of an endpoint: freely while the endpoint has
\* free answers left, then as it answered last
ServerPost(b) ==
    /\ b \in PostAnswers
    /\ freeA > 0 \/ b = lastA
    /\ freeA' = IF freeA > 0 THEN freeA - 1 ELSE 0
    /\ lastA' = b
    /\ UNCHANGED <<lastB, freeB>>

ServerGet(b) ==
    /\ b \in GetAnswers
    /\ freeB > 0 \/ b = lastB
    /\ freeB' = IF freeB > 0 THEN freeB - 1 ELSE 0
    /\ lastB' = b
    /\ UNCHANGED <<lastA, freeA>>

\* lines 255-261: the request of the batch goes out; the loop moves on to the
\* next batch whatever the answer was (line 237; "continue" in line 296)
PostRequest(b, count, slept, goods) ==
    /\ reqLog' = Append(reqLog, [t |-> IssueTime, method |-> "POST",
                                 nmList |-> nm_ids, st |-> b.st, call |-> call,
                                 acc |-> Len(all_results),
                                 cab |-> cabinet.name,
                                 key |-> cabinet.key])
    /\ all_results' = all_results \o goods
    /\ a_records' = a_records \o PostGoods(b.content, nm_ids)
    /\ request_count' = count
    /\ start_time' = StartAtIssue
    /\ now' = IssueTime + latency + slept
    /\ batch_idx' = batch_idx + batch_size
    /\ UNCHANGED <<runVars, mainVars, productVars, parserVars, pc, articles, cleaned_articles,
                   numeric_articles, ret, call>>

\* lines 265-282
Post200 ==
    /\ InLoop
    /\ \E b \in PostAnswers :
        /\ b.st = 200
        /\ ServerPost(b)
        /\ PostRequest(b, CountAtIssue + 1, min_interval,
                       ExtractA(Envelope(shape, PostGoods(b.content, nm_ids))))

\* lines 284-291
Post400 ==
    /\ InLoop
    /\ \E b \in PostAnswers :
        /\ b.st = 400
        /\ ServerPost(b)
        /\ PostRequest(b, CountAtIssue, 0, <<>>)

\* line 293: int() takes the header when it is a number
IntParses(header) == isdigit(strip(header))

\* lines 292-296
Post429 ==
    /\ InLoop
    /\ \E b \in PostAnswers :
        /\ b.st = 429
        /\ b.retry # <<>> => IntParses(b.retry[1])
        /\ ServerPost(b)
        /\ LET retry_after == IF b.retry = <<>> THEN retry_after_default
                              ELSE int(strip(b.retry[1]))
           IN  PostRequest(b, CountAtIssue, 1000 * retry_after, <<>>)

\* lines 292-293: int() raises ValueError on a header that is no number; the
\* handler of line 300 takes RequestException only, so the call raises
Post429Raises ==
    /\ InLoop
    /\ \E b \in PostAnswers :
        /\ b.st = 429
        /\ b.retry # <<>> /\ ~IntParses(b.retry[1])
        /\ ServerPost(b)
        /\ reqLog' = Append(reqLog, [t |-> IssueTime, method |-> "POST",
                                     nmList |-> nm_ids, st |-> b.st,
                                     call |-> call, acc |-> Len(all_results),
                                     cab |-> cabinet.name,
                                 key |-> cabinet.key])
    /\ request_count' = CountAtIssue
    /\ start_time' = StartAtIssue
    /\ now' = IssueTime + latency
    /\ pc' = "raised"
    /\ UNCHANGED <<runVars, mainVars, productVars, parserVars, articles,
                   cleaned_articles, numeric_articles, all_results, batch_idx,
                   ret, call, a_records>>

\* lines 297-298
PostOtherStatus ==
    /\ InLoop
    /\ \E b \in PostAnswers :
        /\ b.st \notin {0, 200, 400, 429}
        /\ ServerPost(b)
        /\ PostRequest(b, CountAtIssue, 0, <<>>)

\* a slip of lines 300-301: the failure is followed by the wait of a 429
PostExceptionWaits ==
    /\ InLoop
    /\ \E b \in PostAnswers :
        /\ b.st = 0
        /\ ServerPost(b)
        /\ PostRequest(b, CountAtIssue, 1000 * retry_after_default, <<>>)

\* lines 300-301
PostException ==
    /\ InLoop
    /\ \E b \in PostAnswers :
        /\ b.st = 0
        /\ ServerPost(b)
        /\ PostRequest(b, CountAtIssue, 0, <<>>)

\* a slip of line 304: the records count only when no batch failed
StrategyAYieldedNoFailure ==
    /\ all_results # <<>>
    /\ \A k \in 1..Len(reqLog) : reqLog[k].call = call => reqLog[k].st = 200

\* line 304: Strategy A gave something
StrategyAYielded == all_results # <<>>

\* lines 303-306
ReturnA ==
    /\ pc = "post" /\ ~InLoop
    /\ StrategyAYielded
    /\ ret' = <<all_results>>
    /\ pc' = "ret"
    /\ UNCHANGED <<runVars, mainVars, productVars, srvVars, parserVars, now, articles,
                   cleaned_articles, numeric_articles, all_results,
                   request_count, start_time, batch_idx, call, a_records,
                   reqLog>>

\* a slip of line 359: the function returns its list even when it is empty
GetRequestEmptyList(b, goods) ==
    /\ reqLog' = Append(reqLog, [t |-> now, method |-> "GET", nmList |-> <<>>,
                                 st |-> b.st, call |-> call,
                                 acc |-> Len(all_results),
                                 cab |-> cabinet.name,
                                 key |-> cabinet.key])
    /\ all_results' = all_results \o goods
    /\ ret' = <<all_results'>>
    /\ now' = now + latency
    /\ pc' = "ret"
    /\ UNCHANGED <<runVars, mainVars, productVars, parserVars, articles,
                   cleaned_articles, numeric_articles, request_count,
                   start_time, batch_idx, call, a_records>>

\* lines 311-318 and 358-359: the listing request goes out, and the function
\* returns what it has
GetRequest(b, goods) ==
    /\ reqLog' = Append(reqLog, [t |-> now, method |-> "GET", nmList |-> <<>>,
                                 st |-> b.st, call |-> call,
                                 acc |-> Len(all_results),
                                 cab |-> cabinet.name,
                                 key |-> cabinet.key])
    /\ all_results' = all_results \o goods
    /\ ret' = IF all_results' # <<>> THEN <<all_results'>> ELSE <<>>
    /\ now' = now + latency
    /\ pc' = "ret"
    /\ UNCHANGED <<runVars, mainVars, productVars, parserVars, articles, cleaned_articles,
                   numeric_articles, request_count, start_time, batch_idx,
                   call, a_records>>

\* lines 322-349
Get200 ==
    /\ pc = "post" /\ ~InLoop
    /\ ~StrategyAYielded
    /\ \E b \in GetAnswers :
        /\ b.st = 200
        /\ ServerGet(b)
        /\ GetRequest(b, ExtractB(Envelope(shape,
                                    GetGoods(b.content, cleaned_articles)),
                                  cleaned_articles))

\* lines 350-354
GetOtherStatus ==
    /\ pc = "post" /\ ~InLoop
    /\ ~StrategyAYielded
    /\ \E b \in GetAnswers :
        /\ b.st \notin {0, 200}
        /\ ServerGet(b)
        /\ GetRequest(b, <<>>)

\* lines 355-356
GetException ==
    /\ pc = "post" /\ ~InLoop
    /\ ~StrategyAYielded
    /\ \E b \in GetAnswers :
        /\ b.st = 0
        /\ ServerGet(b)
        /\ GetRequest(b, <<>>)

(***************************************************************************)
(* main                                                                    *)
(***************************************************************************)
\* line 45: the loop has an account left, and the account it is at
InAccounts == pc = "main_loop" /\ acct <= Len(CabinetNames)
cabinet_name == CabinetNames[acct]
api_key == wb_api_keys[cabinet_name]
\* a slip of line 50: an account without id gets an id of its own
cabinet_idDefault ==
    IF cabinet_name \in DOMAIN wb_cabinet_ids
    THEN <<wb_cabinet_ids[cabinet_name]>> ELSE <<"0">>

\* line 50: wb_cabinet_ids.get(cabinet_name)
cabinet_id ==
    IF cabinet_name \in DOMAIN wb_cabinet_ids
    THEN <<wb_cabinet_ids[cabinet_name]>> ELSE <<>>

\* lines 21-43: the settings are loaded
MainLoadSettings ==
    /\ pc = "main"
    /\ acct' = 1
    /\ merged' = <<>>
    /\ pc' = "main_loop"
    /\ UNCHANGED <<runVars, productVars, srvVars, parserVars, fetcherVars,
                   now, exit_code, parsers, failed, export, call, a_records,
                   reqLog>>

\* lines 23 and 133-136: Settings() raises
MainSettingsFail ==
    /\ pc = "main"
    /\ exit_code' = <<1>>
    /\ pc' = "exit"
    /\ UNCHANGED <<runVars, productVars, srvVars, parserVars, fetcherVars,
                   now, acct, merged, parsers, failed, export, call,
                   a_records, reqLog>>

\* lines 46-48
MainSkipNoKey ==
    /\ InAccounts
    /\ api_key = ""
    /\ acct' = acct + 1
    /\ UNCHANGED <<runVars, productVars, srvVars, parserVars, fetcherVars,
                   now, pc, merged, exit_code, parsers, failed, export, call,
                   a_records, reqLog>>

\* lines 50-53
MainSkipNoId ==
    /\ InAccounts
    /\ api_key # ""
    /\ cabinet_id = <<>>
    /\ acct' = acct + 1
    /\ UNCHANGED <<runVars, productVars, srvVars, parserVars, fetcherVars,
                   now, pc, merged, exit_code, parsers, failed, export, call,
                   a_records, reqLog>>

\* lines 57-66: the parser of the account is created and parse_basic_prices
\* is called
MainCreateParser ==
    /\ InAccounts
    /\ api_key # ""
    /\ cabinet_id # <<>>
    /\ cabinet' = [name |-> cabinet_name, id |-> cabinet_id[1],
                   key |-> api_key]
    /\ parsers' = Append(parsers, cabinet_name)
    /\ pc' = "parse_begin"
    /\ UNCHANGED <<runVars, productVars, srvVars, vendor_codes, i, rows,
                   rows_bare, fetcherVars, now, acct, merged, exit_code,
                   failed, export, call, a_records, reqLog>>

\* lines 66-69: parse_basic_prices returned its rows
MainExtend ==
    /\ pc = "done" /\ entry = "main"
    /\ merged' = merged \o rows
    /\ acct' = acct + 1
    /\ pc' = "main_loop"
    /\ UNCHANGED <<runVars, productVars, srvVars, parserVars, fetcherVars,
                   now, exit_code, parsers, failed, export, call, a_records,
                   reqLog>>

\* a slip of lines 71-74: the handler ends the run instead of going on
MainAccountFailedAbort ==
    /\ pc = "raised" /\ entry = "main"
    /\ failed' = Append(failed, cabinet_name)
    /\ exit_code' = <<1>>
    /\ pc' = "exit"
    /\ UNCHANGED <<runVars, productVars, srvVars, parserVars, fetcherVars,
                   now, acct, merged, parsers, export, call, a_records,
                   reqLog>>

\* lines 71-74: the processing of the account raised
MainAccountFailed ==
    /\ pc = "raised" /\ entry = "main"
    /\ failed' = Append(failed, cabinet_name)
    /\ acct' = acct + 1
    /\ pc' = "main_loop"
    /\ UNCHANGED <<runVars, productVars, srvVars, parserVars, fetcherVars,
                   now, merged, exit_code, parsers, export, call, a_records,
                   reqLog>>

\* line 80: the loop over the accounts is over
AccountsOver == pc = "main_loop" /\ acct > Len(CabinetNames)
\* lines 87-91: the columns of the DataFrame are the keys of the rows, and
\* the sort needs the column size_name
HasSizeName == \E k \in 1..Len(merged) : "size_name" \in DOMAIN merged[k]

\* lines 81-120 and 127: the rows are written
MainExportOk ==
    /\ AccountsOver
    /\ merged # <<>>
    /\ HasSizeName
    /\ export' = "written"
    /\ exit_code' = <<0>>
    /\ pc' = "exit"
    /\ UNCHANGED <<runVars, productVars, srvVars, parserVars, fetcherVars,
                   now, acct, merged, parsers, failed, call, a_records,
                   reqLog>>

\* lines 121-123 and 127: the export raised, for the missing column or for
\* the file, and the handler logs it
MainExportFails ==
    /\ AccountsOver
    /\ merged # <<>>
    /\ export' = "failed"
    /\ exit_code' = <<0>>
    /\ pc' = "exit"
    /\ UNCHANGED <<runVars, productVars, srvVars, parserVars, fetcherVars,
                   now, acct, merged, parsers, failed, call, a_records,
                   reqLog>>

\* lines 124-127: there is nothing to export
MainNoData ==
    /\ AccountsOver
    /\ merged = <<>>
    /\ exit_code' = <<0>>
    /\ pc' = "exit"
    /\ UNCHANGED <<runVars, productVars, srvVars, parserVars, fetcherVars,
                   now, acct, merged, parsers, failed, export, call,
                   a_records, reqLog>>

(***************************************************************************)
(* _make_request, get_content, get_all_products                            *)
(***************************************************************************)
\* the cards the server has from an offset on, a page of them
Cards(from) ==
    LET left == IF catalog > from THEN catalog - from ELSE 0
    IN  [k \in 1..(IF left < limit THEN left ELSE limit) |-> from + k]

\* the bodies of POST /content/v1/cards/cursor/list
ContentKinds == {"cards", "nocards", "nodata"}
ContentBody(kind, page) ==
    CASE kind = "cards"   -> JDict([data |-> JDict([cards |-> page])])
      [] kind = "nocards" -> JDict([data |-> JDict(<<>>)])
      [] OTHER            -> JDict(<<>>)
\* the statuses raise_for_status raises for
ErrorStatuses == {401, 429, 500}

\* lines 98-102: what get_content makes of the result, <<>> for None
get_content ==
    IF result # <<>> /\ Truthy(result[1]) /\ HasKey(result[1], "data")
    THEN <<GetOr(result[1].v.data.v, "cards", <<>>)>>
    ELSE <<>>
\* line 119: "not products"
NoProducts == IF get_content = <<>> THEN TRUE ELSE get_content[1] = <<>>

\* lines 109-114
ProductsBegin ==
    /\ pc = "products"
    /\ all_products' = <<>>
    /\ offset' = 0
    /\ pc' = "request"
    /\ UNCHANGED <<runVars, mainVars, srvVars, parserVars, fetcherVars, now,
                   result, mrLog, call, a_records, reqLog>>

\* the call of _make_request is over
MakeRequestDone(st, slept, body) ==
    /\ mrLog' = Append(mrLog, [st |-> st, answered |-> now + latency,
                               returned |-> now + latency + slept])
    /\ now' = now + latency + slept
    /\ result' = body
    /\ pc' = "response"
    /\ UNCHANGED <<runVars, mainVars, srvVars, parserVars, fetcherVars,
                   offset, all_products, call, a_records, reqLog>>

\* lines 56-69: the answer has a success status
MakeRequestOk ==
    /\ pc = "request"
    /\ \E kind \in ContentKinds :
        MakeRequestDone(200, request_delay,
                        <<ContentBody(kind, Cards(offset))>>)

\* lines 64 and 71-79: raise_for_status raises for the status, before the
\* sleep of line 67
MakeRequestHttpError ==
    /\ pc = "request"
    /\ \E st \in ErrorStatuses : MakeRequestDone(st, 0, <<>>)

\* lines 57-63 and 71-79: the request itself raised
MakeRequestException ==
    /\ pc = "request"
    /\ MakeRequestDone(0, 0, <<>>)

\* lines 119-120 and 130-131
ProductsBreak ==
    /\ pc = "response"
    /\ NoProducts
    /\ pc' = "products_done"
    /\ UNCHANGED <<runVars, mainVars, srvVars, parserVars, fetcherVars, now,
                   productVars, call, a_records, reqLog>>

\* lines 122-126 and 130-131: the page was the last one
ProductsLast ==
    /\ pc = "response"
    /\ ~NoProducts
    /\ Len(get_content[1]) < limit
    /\ all_products' = all_products \o get_content[1]
    /\ pc' = "products_done"
    /\ UNCHANGED <<runVars, mainVars, srvVars, parserVars, fetcherVars, now,
                   offset, result, mrLog, call, a_records, reqLog>>

\* lines 122-128: the page was full
ProductsMore ==
    /\ pc = "response"
    /\ ~NoProducts
    /\ Len(get_content[1]) >= limit
    /\ all_products' = all_products \o get_content[1]
    /\ offset' = offset + limit
    /\ pc' = "request"
    /\ UNCHANGED <<runVars, mainVars, srvVars, parserVars, fetcherVars, now,
                   result, mrLog, call, a_records, reqLog>>

Next ==
    \/ MainLoadSettings
    \/ MainSettingsFail
    \/ MainSkipNoKey
    \/ MainSkipNoId
    \/ MainCreateParser
    \/ MainExtend
    \/ MainAccountFailed
    \/ MainExportOk
    \/ MainExportFails
    \/ MainNoData
    \/ ParseNoFile
    \/ ParseNoArticles
    \/ ParseRead
    \/ Post429Raises
    \/ ProductsBegin
    \/ MakeRequestOk
    \/ MakeRequestHttpError
    \/ MakeRequestException
    \/ ProductsBreak
    \/ ProductsLast
    \/ ProductsMore
    \/ ParseCall
    \/ ParseNoData
    \/ ParsePrices
    \/ ParseReturn
    \/ GetPricesBegin
    \/ Post200
    \/ Post400
    \/ Post429
    \/ PostOtherStatus
    \/ PostException
    \/ ReturnA
    \/ Get200
    \/ GetOtherStatus
    \/ GetException

Spec == Init /\ [][Next]_vars

SpecLong == InitLong /\ [][Next]_vars

(***************************************************************************)
(* Claims                                                                  *)
(***************************************************************************)
\* the requests of the current call of get_prices_by_articles
CallRequests == {k \in 1..Len(reqLog) : reqLog[k].call = call}
Returned == pc = "ret"
IssuedGet == \E k \in CallRequests : reqLog[k].method = "GET"

\* the set the listing is filtered by
RequestedSet == Elems(cleaned_articles)

\* a good whose vendor code or marketplace id is a requested identifier
IsRequested(good) ==
    \/ "vendorCode" \in DOMAIN good /\ good.vendorCode \in RequestedSet
    \/ "nmID" \in DOMAIN good /\ Str(good.nmID) \in RequestedSet
    \/ "nmId" \in DOMAIN good /\ Str(good.nmId) \in RequestedSet

\* a row of the output that is about the identifier: its error row, or a
\* price row of the product the identifier normalizes to
RowIsFor(row, identifier) ==
    LET c == extract_article_from_url(identifier)
    IN  IF "error" \in DOMAIN row
        THEN row.vendor_code = <<identifier>>
        ELSE \/ row.vendor_code = <<c>>
             \/ isdigit(c) /\ row.nm_id = <<int(c)>>

\* C1: when parse_basic_prices returns, every identifier read for the account
\* has at least one output row, a price row or an error row
C1_NoSilentDrops ==
    pc = "done" =>
        \A k \in 1..Len(vendor_codes) :
            \E r \in 1..Len(rows) : RowIsFor(rows[r], vendor_codes[k])

\* C2: no 11 requests of a run of parse_basic_prices, batch requests and
\* listing requests of all its batches, are issued within 6 seconds
C2_RateQuota ==
    entry = "parser" =>
        \A k \in 1..Len(reqLog) :
            k + window_requests <= Len(reqLog) =>
                reqLog[k + window_requests].t - reqLog[k].t >= window_ms

\* C3: two consecutive batch requests of a call are at least 600 ms apart,
\* whatever the answer to the first was
C3_MinSpacing ==
    \A k \in 1..Len(reqLog) :
        (/\ k < Len(reqLog)
         /\ reqLog[k].method = "POST" /\ reqLog[k + 1].method = "POST"
         /\ reqLog[k].call = reqLog[k + 1].call)
        => reqLog[k + 1].t - reqLog[k].t >= min_interval

\* C4: after a 429 the next request of the call is the same batch again, and
\* the call does not return before it
C4_RetrySameBatch ==
    \A k \in 1..Len(reqLog) :
        (reqLog[k].method = "POST" /\ reqLog[k].st = 429) =>
            IF k = Len(reqLog)
            THEN pc = "post" /\ reqLog[k].call = call
            ELSE /\ reqLog[k + 1].method = "POST"
                 /\ reqLog[k + 1].call = reqLog[k].call
                 /\ reqLog[k + 1].nmList = reqLog[k].nmList

\* C5: after a 400 no further batch request is issued in the call, and the
\* records of the batches answered before are in what the call returns
C5_AbandonAfter400 ==
    /\ \A j, k \in 1..Len(reqLog) :
        (/\ j < k /\ reqLog[j].call = reqLog[k].call
         /\ reqLog[j].method = "POST" /\ reqLog[j].st = 400)
        => reqLog[k].method # "POST"
    /\ (Returned /\ a_records # <<>>) =>
        /\ ret # <<>>
        /\ SubSeq(ret[1], 1, Len(a_records)) = a_records

C7_FallbackAfter400 ==
    (/\ Returned
     /\ \E k \in CallRequests :
            reqLog[k].method = "POST" /\ reqLog[k].st = 400 /\ reqLog[k].acc = 0)
    => IssuedGet

\* C8: every record a call returns through the listing request is a
\* requested product
C8_OnlyRequested ==
    (Returned /\ IssuedGet /\ ret # <<>>) =>
        \A k \in 1..Len(ret[1]) : IsRequested(ret[1][k])

\* the listing the server sent in answer to the listing request of the call
Listing == GetGoods(lastB.content, cleaned_articles)
GotListing ==
    /\ Returned
    /\ \E k \in CallRequests : reqLog[k].method = "GET" /\ reqLog[k].st = 200

\* C9: every requested product of the listing is in what the call returns
C9_AllRequested ==
    GotListing =>
        \A k \in 1..Len(Listing) :
            IsRequested(Listing[k]) =>
                ret # <<>> /\ Listing[k] \in Elems(ret[1])

\* C10: the call's records are the ones every envelope of the same list
\* gives, for the batch requests and for the listing request
C10_EnvelopeUniform ==
    /\ (Returned /\ ~IssuedGet) =>
        \A s \in Shapes : ExtractA(Envelope(s, a_records)) = ret[1]
    /\ GotListing =>
        \A s \in Shapes :
            ExtractB(Envelope(s, Listing), cleaned_articles)
                = (IF ret = <<>> THEN <<>> ELSE ret[1])

\* the batch requests of the current call, in the order they were issued
CallPosts ==
    SelectSeq(reqLog, LAMBDA e : e.call = call /\ e.method = "POST")
LoopOver == pc \in {"post", "ret"} /\ ~InLoop
AllPosts200 == \A k \in 1..Len(CallPosts) : CallPosts[k].st = 200

\* C11: when every batch request of a call was answered 200, the call has
\* issued ceil(N/100) batch requests for its N numeric identifiers, each of at
\* most 100 identifiers, and the batches in order are the consecutive slices
\* of the identifiers: every identifier is in exactly one batch
C11_BatchPartition ==
    (LoopOver /\ AllPosts200) =>
        LET N == Len(numeric_articles)
        IN  /\ Len(CallPosts) = (N + batch_size - 1) \div batch_size
            /\ \A k \in 1..Len(CallPosts) :
                   Len(CallPosts[k].nmList) \in 1..batch_size
            /\ Concat([k \in 1..Len(CallPosts) |-> CallPosts[k].nmList])
                   = [k \in 1..N |-> int(numeric_articles[k])]

\* C11: 250 numeric identifiers went out as batches of 100, 100 and 50, all
\* answered 200
C11_Witness ==
    /\ Returned /\ entry = "fetcher"
    /\ articles = Nums(250)
    /\ AllPosts200
    /\ [k \in 1..Len(CallPosts) |-> Len(CallPosts[k].nmList)]
           = <<100, 100, 50>>

\* the orchestrator batch the fetcher was called with
ParserBatch == Slice(vendor_codes, i, parser_batch_size)

\* C12: when the fetcher returns nothing for an orchestrator batch, the step
\* appends exactly one row per identifier of the batch, in batch order, each
\* with the account name, the account id, the identifier, an error marker and
\* no prices, and goes on with the next batch
C12_ErrorRows ==
    [][(pc = "ret" /\ entry # "fetcher" /\ ret = <<>>) =>
        /\ Len(rows') = Len(rows) + Len(ParserBatch)
        /\ SubSeq(rows', 1, Len(rows)) = rows
        /\ \A k \in 1..Len(ParserBatch) :
            LET r == rows'[Len(rows) + k]
            IN  /\ r.cabinet = cabinet.name
                /\ r.cabinet_id = cabinet.id
                /\ r.vendor_code = <<ParserBatch[k]>>
                /\ "error" \in DOMAIN r
                /\ r.base_price = <<>>
                /\ r.discount_price = <<>>
                /\ r.price_with_card = <<>>
        /\ pc' = "parse"
        /\ i' = i + parser_batch_size]_vars

\* C12: the first batch of 100 identifiers got error rows and the second
\* batch is about to be fetched
C12_Witness ==
    /\ pc = "call" /\ i = parser_batch_size
    /\ Len(rows) = parser_batch_size
    /\ \A k \in 1..Len(rows) : "error" \in DOMAIN rows[k]

\* a row of a size of an item
IsSizeRow(row) == "error" \notin DOMAIN row /\ row.size_name # <<>>

\* C13: parse_basic_prices returns at least one row per input identifier, and
\* exactly one when no row comes from a sizes array
C13_RowCount ==
    pc = "done" =>
        /\ Len(rows) >= Len(vendor_codes)
        /\ (\A k \in 1..Len(rows) : ~IsSizeRow(rows[k]))
               => Len(rows) = Len(vendor_codes)

\* an account the configuration has no credential or no id for
Skipped(name) == wb_api_keys[name] = "" \/ name \notin DOMAIN wb_cabinet_ids
\* the accounts the loop of main is through with
Passed == {CabinetNames[k] : k \in {j \in 1..Len(CabinetNames) : j < acct}}
RowsOf(name) == {k \in 1..Len(merged) : merged[k].cabinet = name}
RequestsOf(name) == {k \in 1..Len(reqLog) : reqLog[k].cab = name}

\* C14: an account without credential or without id gets no parser, no
\* request and no row, and every other account the loop is through with got
\* its parser
C14_AccountSkipping ==
    entry = "main" =>
        \A name \in Elems(CabinetNames) :
            IF Skipped(name)
            THEN /\ name \notin Elems(parsers)
                 /\ RequestsOf(name) = {}
                 /\ RowsOf(name) = {}
            ELSE name \in Passed => name \in Elems(parsers)

\* C14: the first account has no credential, and the run has ended with
\* the rows of the second
C14_Witness ==
    /\ pc = "exit" /\ exit_code = <<0>>
    /\ wb_api_keys["COSMO"] = ""
    /\ parsers = <<"MAU">>
    /\ RowsOf("MAU") # {}

\* C15: when the processing of an account raises, the loop goes on with the
\* next account and the merged rows stay as they are; no merged row is of a
\* failed account, and every account with credential and id the loop is
\* through with got its parser
C15_Isolation ==
    /\ [](entry = "main" =>
            /\ \A name \in Elems(failed) : RowsOf(name) = {}
            /\ \A name \in Passed : ~Skipped(name) => name \in Elems(parsers))
    /\ [][(entry = "main" /\ pc = "raised") =>
            /\ merged' = merged
            /\ acct' = acct + 1
            /\ pc' = "main_loop"
            /\ exit_code' = <<>>]_vars

\* C15: the first account raised, and the run has ended with the rows of
\* the second
C15_Witness ==
    /\ pc = "exit" /\ exit_code = <<0>>
    /\ failed = <<"COSMO">>
    /\ parsers = <<"COSMO", "MAU">>
    /\ RowsOf("MAU") # {}

\* C16: a run whose export failed, or whose settings failed to load, ends
\* with status 1
C16_FailureStatus ==
    (pc = "exit" /\ (export = "failed" \/ acct = 0)) => exit_code = <<1>>

\* C17: every call of _make_request that got an answer, of a success status
\* or of an error status, sleeps request_delay before it returns
C17_SelfThrottle ==
    \A k \in 1..Len(mrLog) :
        mrLog[k].st # 0 =>
            mrLog[k].returned - mrLog[k].answered >= request_delay

\* C18: after every price request the fetcher waits request_delay on top of
\* its own pacing: before the next request of the call, and before it returns
C18_AdditiveDelays ==
    \A k \in 1..Len(reqLog) :
        LET pacing == IF reqLog[k].method = "POST" /\ reqLog[k].st = 200
                      THEN min_interval ELSE 0
        IN  /\ (k < Len(reqLog) /\ reqLog[k + 1].call = reqLog[k].call)
                => reqLog[k + 1].t - reqLog[k].t >= pacing + request_delay
            /\ (k = Len(reqLog) /\ Returned)
                => now - reqLog[k].t >= pacing + request_delay

\* the identifier file is missing or has no vendor code
EmptySource == source.path = <<>> \/ source.codes = <<>>

\* C19: with no identifier file or no identifier in it, parse_basic_prices
\* returns no row, no request goes out, nothing raises, and main goes on to
\* the next account
C19_EmptyInput ==
    (entry \in {"main", "parser"} /\ EmptySource) =>
        /\ reqLog = <<>> /\ call = 0
        /\ rows = <<>> /\ merged = <<>>
        /\ pc # "raised" /\ failed = <<>>
        /\ \A name \in Passed : ~Skipped(name) => name \in Elems(parsers)

\* C19: the file was not found, and main has been through both accounts
C19_Witness ==
    /\ entry = "main" /\ pc = "exit"
    /\ source = NotFound
    /\ parsers = <<"COSMO", "MAU">>

\* C20: the rows parse_basic_prices returns are the rows of the run over the
\* bare codes in place of the URLs, the answers being the same
C20_UrlEquivalence ==
    (pc = "done" /\ Cleaned(BareCodes(vendor_codes)) = Cleaned(vendor_codes))
        => rows = rows_bare

\* an item with a sizes array that is not empty, the rows it is due, its
\* product id, and the rows due to the items before the k-th
HasSizes(item) == "sizes" \in DOMAIN item /\ item.sizes # <<>>
RowCount(item) == IF HasSizes(item) THEN Len(item.sizes) ELSE 1
ParentId(item) ==
    IF "nmID" \in DOMAIN item THEN <<item.nmID>>
    ELSE IF "nmId" \in DOMAIN item THEN <<item.nmId>> ELSE <<>>
RECURSIVE RowsBefore(_, _)
RowsBefore(items, k) ==
    IF k <= 1 THEN 0
    ELSE RowsBefore(items, k - 1) + RowCount(items[k - 1])

\* C21: the step that normalizes the items of a batch appends, for every
\* item in order, one row per entry of its sizes array, with the id of the
\* item and the size id, size name and prices of the entry, or, when the item
\* has no sizes or an empty array, one row with no size id and the prices of
\* the item itself
C21_SizeExpansion ==
    [][(pc = "ret" /\ entry # "fetcher" /\ ret # <<>>) =>
        LET items == ret[1]
        IN  /\ Len(rows') = Len(rows) + RowsBefore(items, Len(items) + 1)
            /\ SubSeq(rows', 1, Len(rows)) = rows
            /\ \A k \in 1..Len(items) :
                LET item == items[k]
                    base == Len(rows) + RowsBefore(items, k)
                IN  IF HasSizes(item)
                    THEN \A n \in 1..Len(item.sizes) :
                        LET r == rows'[base + n]
                            size == item.sizes[n]
                        IN  /\ r.nm_id = ParentId(item)
                            /\ r.size_id = <<size.sizeID>>
                            /\ r.size_name = <<size.techSizeName>>
                            /\ r.base_price = <<size.price>>
                            /\ r.discounted_price = <<size.discountedPrice>>
                            /\ r.club_discounted_price
                                   = <<size.clubDiscountedPrice>>
                    ELSE LET r == rows'[base + 1]
                         IN  /\ r.nm_id = ParentId(item)
                             /\ r.size_id = <<>>
                             /\ r.base_price = Get(item, "price")
                             /\ r.discounted_price
                                    = Get(item, "discountedPrice")
                             /\ r.club_discounted_price
                                    = Get(item, "clubDiscountedPrice")]_vars

\* C21: the rows hold the two size rows of one item, with the same product
\* id and different size ids
C21_Witness ==
    \E k \in 1..Len(rows) :
        /\ k < Len(rows)
        /\ IsSizeRow(rows[k]) /\ IsSizeRow(rows[k + 1])
        /\ rows[k].nm_id = rows[k + 1].nm_id
        /\ rows[k].size_id # rows[k + 1].size_id

\* the records the listing request of the call gave: what the function keeps
\* of a listing answered 200
BRecords ==
    IF \E k \in CallRequests :
           reqLog[k].method = "GET" /\ reqLog[k].st = 200
    THEN ExtractB(Envelope(shape, Listing), cleaned_articles)
    ELSE <<>>
NeitherYielded == a_records = <<>> /\ BRecords = <<>>

\* C22: a call returns None exactly when neither the batch requests nor the
\* listing request gave a record, and a list with records otherwise; the
\* orchestrator then writes error rows for the batch exactly when neither
\* gave a record
C22_EmptySignal ==
    /\ [](Returned =>
            /\ ret = <<>> <=> NeitherYielded
            /\ ret # <<>> => ret[1] # <<>>)
    /\ [][(Returned /\ entry # "fetcher") =>
            /\ rows' # <<>>
            /\ "error" \in DOMAIN rows'[Len(rows')] <=> NeitherYielded]_vars

\* C22: a call of the orchestrator has returned None after a batch request
\* and a listing request that were both answered 200
C22_Witness ==
    /\ Returned /\ entry = "parser"
    /\ ret = <<>>
    /\ \E k \in CallRequests :
           reqLog[k].method = "POST" /\ reqLog[k].st = 200
    /\ \E k \in CallRequests :
           reqLog[k].method = "GET" /\ reqLog[k].st = 200

\* the place of an account in the configuration
Pos(name) == CHOOSE k \in 1..Len(CabinetNames) : CabinetNames[k] = name

\* C23: every merged row carries the name of an account a parser was made
\* for and the id the configuration gives that account, the account has
\* issued requests, every request went out with the credential of the account
\* it is logged for, and the merged rows are in the order of the accounts,
\* the rows of one account never between those of another
C23_AccountTagging ==
    entry = "main" =>
        /\ \A k \in 1..Len(merged) :
            LET name == merged[k].cabinet
            IN  /\ name \in Elems(parsers)
                /\ name \in DOMAIN wb_cabinet_ids
                /\ merged[k].cabinet_id = wb_cabinet_ids[name]
                /\ RequestsOf(name) # {}
        /\ \A k \in 1..Len(reqLog) :
            /\ reqLog[k].cab \in Elems(CabinetNames)
            /\ reqLog[k].key = wb_api_keys[reqLog[k].cab]
            /\ reqLog[k].key # ""
        /\ \A j, k \in 1..Len(merged) :
            j < k => Pos(merged[j].cabinet) <= Pos(merged[k].cabinet)

\* C23: the merged rows are an error row of the first account and then
\* price rows of the second
C23_Witness ==
    /\ pc = "exit"
    /\ RowsOf("COSMO") # {} /\ RowsOf("MAU") # {}
    /\ \E k \in RowsOf("COSMO") : "error" \in DOMAIN merged[k]
    /\ \E k \in RowsOf("MAU") : "error" \notin DOMAIN merged[k]

\* the batch requests of the call issued since the window started
SinceWindowStart ==
    {k \in CallRequests :
        reqLog[k].method = "POST" /\ reqLog[k].t >= start_time}

\* C24: whenever a batch request is about to be issued, the window counter
\* is the number of the requests issued since the start of the window,
\* whatever their status
C24_WindowCounter ==
    InLoop => request_count = Cardinality(SinceWindowStart)

\* the time from a request of a call to what the call does next, the next
\* request or the return, less the time the request took
WaitAfter(k) ==
    IF k < Len(reqLog) /\ reqLog[k + 1].call = reqLog[k].call
    THEN <<reqLog[k + 1].t - reqLog[k].t - latency>>
    ELSE IF k = Len(reqLog) /\ reqLog[k].call = call /\ pc \in {"post", "ret"}
         THEN <<now - reqLog[k].t - latency>>
         ELSE <<>>
RetryWaits == {1000 * retry_after_default, 1000}

\* C25: a request that failed in transport is not issued again in its call
\* and is followed by no wait; the call goes on to its remaining batches and,
\* without records, to the listing request; a wait of a retry-after duration
\* follows a 429 and nothing else
C25_NoRetry ==
    /\ \A k \in 1..Len(reqLog) :
        /\ reqLog[k].st = 0 =>
            /\ \A j \in 1..Len(reqLog) :
                (j > k /\ reqLog[j].call = reqLog[k].call)
                => /\ reqLog[k].method = "POST"
                   /\ reqLog[j].nmList # reqLog[k].nmList
            /\ WaitAfter(k) \in {<<>>, <<0>>}
        /\ reqLog[k].st = 429 =>
            WaitAfter(k) = <<>> \/ WaitAfter(k)[1] \in RetryWaits
        /\ reqLog[k].st \notin {0, 429} =>
            WaitAfter(k) = <<>> \/ WaitAfter(k)[1] \notin RetryWaits
    /\ (Returned /\ \E k \in CallRequests : reqLog[k].st = 0) =>
        /\ Len(CallPosts) = (Len(numeric_articles) + batch_size - 1)
                                \div batch_size
        /\ a_records = <<>> => IssuedGet

\* C25: the first batch request of a call failed in transport, and the call
\* has gone on to a second batch, answered 200, and has returned
C25_Witness ==
    /\ Returned
    /\ Len(CallPosts) >= 2
    /\ CallPosts[1].st = 0
    /\ CallPosts[2].st = 200
    /\ CallPosts[2].nmList # CallPosts[1].nmList

\* the listing requests of the current call
CallGets == {k \in CallRequests : reqLog[k].method = "GET"}

\* C26: a call of get_prices_by_articles issues at most ceil(M/100) batch
\* requests for its M numeric identifiers and at most one listing request,
\* and it ends by returning: neither it nor parse_basic_prices ends in an
\* exception, whatever the server answers
C26_Termination ==
    /\ call > 0 =>
        /\ Len(CallPosts) <= (Len(numeric_articles) + batch_size - 1)
                                 \div batch_size
        /\ Cardinality(CallGets) <= 1
    /\ pc # "raised"

====
